---- MODULE Spec2Model ----
(***************************************************************************)
(* porkbun-ddns: one run of the dynamic-DNS reconciler.                    *)
(*                                                                         *)
(* main() loads the configuration, asks the provider for the machine's     *)
(* public addresses (get_addresses), fetches the records of every domain   *)
(* a target names (first join_all of App::run), then reconciles every      *)
(* (target, address family) pair (second join_all of App::run,             *)
(* App::handle_target) and turns the number of failures into the exit      *)
(* status.  Strings are sequences of one-character strings so that         *)
(* Target::matches_record can be computed the way the code computes it.    *)
(* The "notes" field of a payload (a wall-clock timestamp) is left out.    *)
(***************************************************************************)
EXTENDS Integers, Sequences, FiniteSets, TLC

(* ------------------------------ bounds -------------------------------- *)

\* Longest list of targets a configuration holds.
MaxTargets == 2

\* Longest list of records the provider returns for one domain.
MaxRecords == 2

(* --------------------------- option values ---------------------------- *)

None == [some |-> FALSE]

Some(x) == [some |-> TRUE, v |-> x]

IsSome(o) == o.some

(* ----------------------------- addresses ------------------------------ *)

\* std::net::IpAddr: the family and the address value.
V4(n) == [fam |-> "V4", val |-> n]

V6(n) == [fam |-> "V6", val |-> n]

\* The machine's public addresses, and the addresses stale records hold.
Cur4 == V4("198.51.100.7")

Old4 == V4("198.51.100.1")

Cur6 == V6("2001:db8::7")

Old6 == V6("2001:db8::1")

\* IpAddrExt::dns_type: the record type of an address family.
dns_type(addr) == IF addr.fam = "V4" THEN "A" ELSE "AAAA"

\* Display of an IpAddr (the "content" of a payload): the canonical text.
FormatIp(addr) == addr.val

\* str::parse::<IpAddr>: the texts the provider may hold.  A text that is
\* no address gives None.  An IPv6 address has several spellings, so the
\* parse is not the inverse of FormatIp.
ParseIp(s) ==
    CASE s = "198.51.100.7" -> Some(Cur4)
      [] s = "198.51.100.1" -> Some(Old4)
      [] s = "2001:db8::7" -> Some(Cur6)
      [] s = "2001:DB8:0::7" -> Some(Cur6)
      [] s = "2001:db8::1" -> Some(Old6)
      [] OTHER -> None

(* ------------------------------ targets ------------------------------- *)

DomA == <<"a", "c">>

DomB == <<"b", "c">>

Domains == {DomA, DomB}

Target(d, s, t) == [domain |-> d, subdomain |-> s, ttl |-> t]

\* The targets a configuration file may list.
TargetPool ==
    { Target(DomA, None, 600),
      Target(DomA, Some(<<"@">>), 600),
      Target(DomA, Some(<<"w">>), 300),
      Target(DomB, None, 600) }

RECURSIVE SeqsUpTo(_, _)
SeqsUpTo(S, n) ==
    IF n = 0 THEN {<<>>}
    ELSE LET shorter == SeqsUpTo(S, n - 1)
         IN  shorter \cup {Append(s, x) : s \in {q \in shorter : Len(q) = n - 1}, x \in S}

\* Display for Target: "{sub}.{domain}", or the domain alone.
TargetLabel(t) ==
    IF IsSome(t.subdomain) THEN t.subdomain.v \o <<".">> \o t.domain ELSE t.domain

\* TargetsUnique looking only at the targets that have a subdomain.
TargetsUniqueSubdomains(ts) ==
    \A i, j \in 1..Len(ts) :
        (i # j /\ IsSome(ts[i].subdomain) /\ IsSome(ts[j].subdomain))
            => TargetLabel(ts[i]) # TargetLabel(ts[j])

\* Config::from_args, the uniqueness check: TRUE when no label repeats.
TargetsUnique(ts) ==
    \A i, j \in 1..Len(ts) : i # j => TargetLabel(ts[i]) # TargetLabel(ts[j])

\* AddrMode::is_enabled
is_enabled(m) == m \in {"Enabled", "Try"}

\* AddrMode::is_required
is_required(m) == m = "Enabled"

AddrModes == {"Enabled", "Disabled", "Try"}

(* ------------------------------ records ------------------------------- *)

\* api::model::DNSRecord (ttl, prio and notes are never read by the run).
DNSRecord(i, n, t, c) == [id |-> i, name |-> n, typ |-> t, content |-> c]

StartsWith(s, p) == Len(p) <= Len(s) /\ SubSeq(s, 1, Len(p)) = p

EndsWith(s, p) == Len(p) <= Len(s) /\ SubSeq(s, Len(s) - Len(p) + 1, Len(s)) = p

\* matches_record with the root target matched by suffix.
matches_record_suffix(target, record) ==
    IF ~IsSome(target.subdomain) \/ target.subdomain.v = <<"@">>
    THEN EndsWith(record.name, target.domain)
    ELSE LET sub == target.subdomain.v
         IN  /\ StartsWith(record.name, sub)
             /\ EndsWith(record.name, target.domain)
             /\ Len(record.name) = Len(target.domain) + Len(sub) + 1
             /\ SubSeq(record.name, Len(sub) + 1, Len(sub) + 1) = <<".">>

\* matches_record without the test of the separator.
matches_record_no_dot(target, record) ==
    IF ~IsSome(target.subdomain) \/ target.subdomain.v = <<"@">>
    THEN record.name = target.domain
    ELSE LET sub == target.subdomain.v
         IN  /\ StartsWith(record.name, sub)
             /\ EndsWith(record.name, target.domain)
             /\ Len(record.name) = Len(target.domain) + Len(sub) + 1

\* matches_record taking "@" for a subdomain like any other: only a target
\* without subdomain stands for the bare domain.
matches_record_at_literal(target, record) ==
    IF ~IsSome(target.subdomain)
    THEN record.name = target.domain
    ELSE LET sub == target.subdomain.v
         IN  /\ StartsWith(record.name, sub)
             /\ EndsWith(record.name, target.domain)
             /\ Len(record.name) = Len(target.domain) + Len(sub) + 1
             /\ SubSeq(record.name, Len(sub) + 1, Len(sub) + 1) = <<".">>

\* Target::matches_record
matches_record(target, record) ==
    IF ~IsSome(target.subdomain) \/ target.subdomain.v = <<"@">>
    THEN record.name = target.domain
    ELSE LET sub == target.subdomain.v
         IN  /\ StartsWith(record.name, sub)
             /\ EndsWith(record.name, target.domain)
             /\ Len(record.name) = Len(target.domain) + Len(sub) + 1
             /\ SubSeq(record.name, Len(sub) + 1, Len(sub) + 1) = <<".">>

\* try_parse_ip without the comparison of the address family with the
\* record type.
try_parse_ip_any_family(record) ==
    IF ~(record.typ = "A" \/ record.typ = "AAAA") THEN None
    ELSE ParseIp(record.content)

\* DNSRecord::try_parse_ip: Some(address), or None for an error.
try_parse_ip(record) ==
    IF ~(record.typ = "A" \/ record.typ = "AAAA") THEN None
    ELSE LET addr == ParseIp(record.content)
         IN  IF ~IsSome(addr) THEN None
             ELSE IF dns_type(addr.v) # record.typ THEN None
             ELSE addr

\* ScanRecords keeping the later of two records of the wanted type instead
\* of failing on the second.
RECURSIVE ScanRecordsLast(_, _, _, _, _)
ScanRecordsLast(target, records, typ, i, existing) ==
    IF i > Len(records) THEN [err |-> "", existing |-> existing]
    ELSE LET record == records[i]
         IN  IF ~matches_record(target, record)
             THEN ScanRecordsLast(target, records, typ, i + 1, existing)
             ELSE IF record.typ = typ
             THEN ScanRecordsLast(target, records, typ, i + 1, Some(record))
             ELSE IF record.typ = "CNAME" \/ record.typ = "ALIAS"
             THEN [err |-> "collision", existing |-> existing]
             ELSE ScanRecordsLast(target, records, typ, i + 1, existing)

\* ScanRecords looking for a CNAME or ALIAS record only while no record of
\* the wanted type has been found.
RECURSIVE ScanRecordsAliasFirst(_, _, _, _, _)
ScanRecordsAliasFirst(target, records, typ, i, existing) ==
    IF i > Len(records) THEN [err |-> "", existing |-> existing]
    ELSE LET record == records[i]
         IN  IF ~matches_record(target, record)
             THEN ScanRecordsAliasFirst(target, records, typ, i + 1, existing)
             ELSE IF record.typ = typ
             THEN IF ~IsSome(existing)
                  THEN ScanRecordsAliasFirst(target, records, typ, i + 1, Some(record))
                  ELSE [err |-> "ambiguous", existing |-> existing]
             ELSE IF (record.typ = "CNAME" \/ record.typ = "ALIAS") /\ ~IsSome(existing)
             THEN [err |-> "collision", existing |-> existing]
             ELSE ScanRecordsAliasFirst(target, records, typ, i + 1, existing)

\* ScanRecords taking every record of the target's name and another type
\* for a collision, not only a CNAME or ALIAS record.
RECURSIVE ScanRecordsStrict(_, _, _, _, _)
ScanRecordsStrict(target, records, typ, i, existing) ==
    IF i > Len(records) THEN [err |-> "", existing |-> existing]
    ELSE LET record == records[i]
         IN  IF ~matches_record(target, record)
             THEN ScanRecordsStrict(target, records, typ, i + 1, existing)
             ELSE IF record.typ = typ
             THEN IF ~IsSome(existing)
                  THEN ScanRecordsStrict(target, records, typ, i + 1, Some(record))
                  ELSE [err |-> "ambiguous", existing |-> existing]
             ELSE [err |-> "collision", existing |-> existing]

\* ScanRecords keeping the first of two records of the wanted type instead
\* of failing on the second.
RECURSIVE ScanRecordsFirstWins(_, _, _, _, _)
ScanRecordsFirstWins(target, records, typ, i, existing) ==
    IF i > Len(records) THEN [err |-> "", existing |-> existing]
    ELSE LET record == records[i]
         IN  IF ~matches_record(target, record)
             THEN ScanRecordsFirstWins(target, records, typ, i + 1, existing)
             ELSE IF record.typ = typ
             THEN ScanRecordsFirstWins(target, records, typ, i + 1,
                                       IF IsSome(existing) THEN existing ELSE Some(record))
             ELSE IF record.typ = "CNAME" \/ record.typ = "ALIAS"
             THEN [err |-> "collision", existing |-> existing]
             ELSE ScanRecordsFirstWins(target, records, typ, i + 1, existing)

\* App::handle_target, the scan of the domain's records from position i on,
\* with the record found so far: an error ends the scan at once.
RECURSIVE ScanRecords(_, _, _, _, _)
ScanRecords(target, records, typ, i, existing) ==
    IF i > Len(records) THEN [err |-> "", existing |-> existing]
    ELSE LET record == records[i]
         IN  IF ~matches_record(target, record)
             THEN ScanRecords(target, records, typ, i + 1, existing)
             ELSE IF record.typ = typ
             THEN IF ~IsSome(existing)
                  THEN ScanRecords(target, records, typ, i + 1, Some(record))
                  ELSE [err |-> "ambiguous", existing |-> existing]
             ELSE IF record.typ = "CNAME" \/ record.typ = "ALIAS"
             THEN [err |-> "collision", existing |-> existing]
             ELSE ScanRecords(target, records, typ, i + 1, existing)

\* handle_target comparing the record's text with the address's text
\* instead of the parsed addresses.
handle_target_by_text(target, records, addr) ==
    LET scan == ScanRecords(target, records, dns_type(addr), 1, None)
    IN  IF scan.err # "" THEN [kind |-> "Failed", id |-> 0]
        ELSE IF IsSome(scan.existing)
        THEN LET existing_addr == try_parse_ip(scan.existing.v)
             IN  IF ~IsSome(existing_addr) THEN [kind |-> "Failed", id |-> 0]
                 ELSE IF scan.existing.v.content = FormatIp(addr) THEN [kind |-> "NoChange", id |-> 0]
                 ELSE [kind |-> "Edit", id |-> scan.existing.v.id]
        ELSE [kind |-> "Create", id |-> 0]

\* handle_target editing the first record of the domain instead of the
\* record it found.
handle_target_first_id(target, records, addr) ==
    LET scan == ScanRecords(target, records, dns_type(addr), 1, None)
    IN  IF scan.err # "" THEN [kind |-> "Failed", id |-> 0]
        ELSE IF IsSome(scan.existing)
        THEN LET existing_addr == try_parse_ip(scan.existing.v)
             IN  IF ~IsSome(existing_addr) THEN [kind |-> "Failed", id |-> 0]
                 ELSE IF existing_addr.v = addr THEN [kind |-> "NoChange", id |-> 0]
                 ELSE [kind |-> "Edit", id |-> records[1].id]
        ELSE [kind |-> "Create", id |-> 0]

\* App::handle_target up to its provider call: what the task does.
\*   Failed     an error before any call
\*   NoChange   the record already holds the address
\*   Edit       edit_record is due for record id
\*   Create     create_record is due
handle_target(target, records, addr) ==
    LET scan == ScanRecords(target, records, dns_type(addr), 1, None)
    IN  IF scan.err # "" THEN [kind |-> "Failed", id |-> 0]
        ELSE IF IsSome(scan.existing)
        THEN LET existing_addr == try_parse_ip(scan.existing.v)
             IN  IF ~IsSome(existing_addr) THEN [kind |-> "Failed", id |-> 0]
                 ELSE IF existing_addr.v = addr THEN [kind |-> "NoChange", id |-> 0]
                 ELSE [kind |-> "Edit", id |-> scan.existing.v.id]
        ELSE [kind |-> "Create", id |-> 0]

\* PayloadName sending "@" like any other subdomain.
PayloadNameAtLiteral(target) ==
    IF ~IsSome(target.subdomain) THEN <<>> ELSE target.subdomain.v

\* PorkbunClient::make_dns_payload, the "name" field.
PayloadName(target) ==
    IF ~IsSome(target.subdomain) \/ target.subdomain.v = <<"@">>
    THEN <<>>
    ELSE target.subdomain.v

\* The types and contents of the records the provider may hold: current,
\* stale, differently spelled, wrong-family and unparsable addresses, the
\* types that rule an address record out, and a type the run ignores.
RecordKinds ==
    { <<"A", "198.51.100.7">>,
      <<"A", "198.51.100.1">>,
      <<"A", "2001:db8::7">>,
      <<"A", "not-an-ip">>,
      <<"AAAA", "2001:DB8:0::7">>,
      <<"AAAA", "2001:db8::1">>,
      <<"CNAME", "host.example">>,
      <<"ALIAS", "host.example">>,
      <<"TXT", "198.51.100.7">> }

\* The shapes of record the provider may hold for domain d: the root name
\* and the name of subdomain "w", each with every kind.
RecordShapes(d) ==
    { [name |-> n, typ |-> k[1], content |-> k[2]] :
        n \in {d, <<"w", ".">> \o d}, k \in RecordKinds }

\* The answers listRecords may give for domain d: the record at position i
\* has ID i (the provider's IDs are unique within a domain).
RecordLists(d) ==
    { [i \in 1..Len(s) |-> DNSRecord(i, s[i].name, s[i].typ, s[i].content)] :
        s \in SeqsUpTo(RecordShapes(d), MaxRecords) }

(* ------------------------------- state -------------------------------- *)

VARIABLES
    app,              \* the result of App::init: "pending", "ok", "err"
    pc,               \* where main() is: "init", "start", "ping", "ping_v4", "fetch", "targets", "exit"
    dry_run,          \* Args::dry_run
    ipv4_mode,        \* Config::ipv4
    ipv6_mode,        \* Config::ipv6
    cfg_targets,      \* Config::targets as the configuration file lists them
    targets,          \* App::targets
    addrs,            \* the result of get_addresses: "pending", "ok", "err"
    ipv4,             \* the resolved IPv4 address, or None
    ipv6,             \* the resolved IPv6 address, or None
    current_records,  \* App::run: domain -> records
    fetch,            \* the record tasks: domain -> "called", "ok", "err"
    task,             \* the target tasks: <<target index, family>> -> "none", "called", "ok", "err"
    err_count,        \* App::run: err_count
    calls,            \* every provider call issued so far
    exit,             \* the ExitCode of main(): "none" while it runs
    probed,           \* the answers the probes have given so far, in order
    arg,              \* the inputs of a function applied on its own, or None
    ret               \* what that function returned, or None before it is applied

vars == <<app, pc, dry_run, ipv4_mode, ipv6_mode, cfg_targets, targets, addrs, ipv4, ipv6,
          current_records, fetch, task, err_count, calls, exit, probed, arg, ret>>

\* The variables of a function applied on its own: a run leaves them alone.
applied == <<arg, ret>>

config == <<dry_run, ipv4_mode, ipv6_mode, cfg_targets>>

Families == {"V4", "V6"}

ipv4_enabled == is_enabled(ipv4_mode)

ipv6_enabled == is_enabled(ipv6_mode)

ipv4_required == is_required(ipv4_mode)

ipv6_required == is_required(ipv6_mode)

\* App::mode_count
mode_count == (IF ipv4_enabled THEN 1 ELSE 0) + (IF ipv6_enabled THEN 1 ELSE 0)

\* Who issues a call: main() itself, the record task of a domain, or the
\* target task of targets[i] and a family.
ByMain == [kind |-> "main", i |-> 0, fam |-> "-"]

ByFetch == [kind |-> "fetch", i |-> 0, fam |-> "-"]

ByTask(i, f) == [kind |-> "task", i |-> i, fam |-> f]

\* One request to the provider: the operation, who makes it, and what the
\* URL and the payload carry.
Call(op, by, d, id, name, typ, content, ttl) ==
    [op |-> op, by |-> by, domain |-> d, id |-> id, name |-> name, typ |-> typ,
     content |-> content, ttl |-> ttl]

\* The requests reqs as they enter the log of calls: n counts the times the
\* same request was made before, so that a repeated call shows.
Issued(reqs) == {[req |-> r, n |-> Cardinality({c \in calls : c.req = r})] : r \in reqs}

\* PorkbunClient::ping
PingCall == Call("ping", ByMain, <<>>, 0, <<>>, "", "", 0)

\* PorkbunClient::ping_v4
PingV4Call == Call("ping_v4", ByMain, <<>>, 0, <<>>, "", "", 0)

\* PorkbunClient::get_existing_records
ListCall(d) == Call("listRecords", ByFetch, d, 0, <<>>, "", "", 0)

\* PorkbunClient::edit_record
EditCall(i, f, target, id, addr) ==
    Call("editRecord", ByTask(i, f), target.domain, id, PayloadName(target),
         dns_type(addr), FormatIp(addr), target.ttl)

\* PorkbunClient::create_record
CreateCall(i, f, target, addr) ==
    Call("createRecord", ByTask(i, f), target.domain, 0, PayloadName(target),
         dns_type(addr), FormatIp(addr), target.ttl)

NoTasks == [tf \in {} |-> "none"]

NoRecords == [d \in {} |-> <<>>]

Init ==
    /\ app = "pending"
    /\ pc = "init"
    /\ dry_run \in BOOLEAN
    /\ ipv4_mode \in AddrModes
    /\ ipv6_mode \in AddrModes
    /\ cfg_targets \in SeqsUpTo(TargetPool, MaxTargets)
    /\ targets = <<>>
    /\ addrs = "pending"
    /\ ipv4 = None
    /\ ipv6 = None
    /\ current_records = NoRecords
    /\ fetch = NoRecords
    /\ task = NoTasks
    /\ err_count = 0
    /\ calls = {}
    /\ exit = "none"
    /\ probed = <<>>
    /\ arg = None
    /\ ret = None

\* main() returns.
Exit(code) ==
    /\ pc' = "exit"
    /\ exit' = code

\* App::init: the configuration is read and checked, the API keys are
\* read.  io_ok is FALSE when a file or a key is missing.
AppInit ==
    /\ pc = "init"
    /\ \E io_ok \in BOOLEAN :
          IF io_ok /\ TargetsUnique(cfg_targets)
          THEN /\ app' = "ok"
               /\ targets' = cfg_targets
               /\ pc' = "start"
               /\ exit' = exit
          ELSE /\ app' = "err"
               /\ targets' = targets
               /\ Exit("FAILURE")
    /\ UNCHANGED <<config, addrs, ipv4, ipv6, current_records, fetch, task, err_count, calls>>
    /\ UNCHANGED <<probed, applied>>

\* The domains of the targets, each once (the keys of current_records).
TargetDomains(ts) == {ts[i].domain : i \in 1..Len(ts)}

\* Resolved with one record task for every target instead of one for every
\* domain: a domain two targets share is fetched twice.
ResolvedPerTarget(v4, v6) ==
    /\ addrs' = "ok"
    /\ ipv4' = v4
    /\ ipv6' = v6
    /\ IF ~IsSome(v4) /\ ~IsSome(v6)
       THEN /\ Exit("SUCCESS")
            /\ UNCHANGED <<current_records, fetch, calls>>
       ELSE IF Len(targets) = 0
       THEN /\ Exit("SUCCESS")
            /\ UNCHANGED <<current_records, fetch, calls>>
       ELSE /\ pc' = "fetch"
            /\ exit' = exit
            /\ current_records' = [d \in TargetDomains(targets) |-> <<>>]
            /\ fetch' = [d \in TargetDomains(targets) |-> "called"]
            /\ calls' = calls \cup
                  { [req |-> ListCall(targets[i].domain),
                     n |-> Cardinality({j \in 1..(i - 1) :
                                           targets[j].domain = targets[i].domain})] :
                    i \in 1..Len(targets) }

\* main() once get_addresses has returned Ok((v4, v6)), and App::run up to
\* the first join_all, which polls every record task once: each sends its
\* request.
Resolved(v4, v6) ==
    /\ addrs' = "ok"
    /\ ipv4' = v4
    /\ ipv6' = v6
    /\ IF ~IsSome(v4) /\ ~IsSome(v6)
       THEN /\ Exit("SUCCESS")
            /\ UNCHANGED <<current_records, fetch, calls>>
       ELSE IF Len(targets) = 0
       THEN /\ Exit("SUCCESS")
            /\ UNCHANGED <<current_records, fetch, calls>>
       ELSE /\ pc' = "fetch"
            /\ exit' = exit
            /\ current_records' = [d \in TargetDomains(targets) |-> <<>>]
            /\ fetch' = [d \in TargetDomains(targets) |-> "called"]
            /\ calls' = calls \cup Issued({ListCall(d) : d \in TargetDomains(targets)})

\* Unresolved with the early return of main() left out: the error is
\* logged and the run goes on to fetch the records.
UnresolvedGoesOn ==
    /\ addrs' = "err"
    /\ pc' = "fetch"
    /\ exit' = exit
    /\ current_records' = [d \in TargetDomains(targets) |-> <<>>]
    /\ fetch' = [d \in TargetDomains(targets) |-> "called"]
    /\ calls' = calls \cup Issued({ListCall(d) : d \in TargetDomains(targets)})
    /\ UNCHANGED <<ipv4, ipv6>>

\* main() once get_addresses has returned an error.
Unresolved ==
    /\ addrs' = "err"
    /\ Exit("FAILURE")
    /\ UNCHANGED <<ipv4, ipv6, current_records, fetch, calls>>

\* GetAddresses without the early return for two disabled families: the
\* probe is sent whatever the modes are.
GetAddressesAlwaysPings ==
    /\ pc = "start"
    /\ calls' = calls \cup Issued({PingCall})
    /\ pc' = "ping"
    /\ UNCHANGED <<addrs, ipv4, ipv6, current_records, fetch, exit>>
    /\ UNCHANGED <<app, config, targets, task, err_count, probed, applied>>

\* App::get_addresses up to the answer of the first probe.
GetAddresses ==
    /\ pc = "start"
    /\ IF mode_count = 0
       THEN Resolved(None, None)
       ELSE /\ calls' = calls \cup Issued({PingCall})
            /\ pc' = "ping"
            /\ UNCHANGED <<addrs, ipv4, ipv6, current_records, fetch, exit>>
    /\ UNCHANGED <<app, config, targets, task, err_count, probed, applied>>

\* What a probe may answer: an error, or an address of either family.
ProbeAnswers == {None, Some(Cur4), Some(Cur6)}

\* PingReturn keeping the address the probe answered with whether or not
\* its family is wanted.
PingReturnKeepsAnswer ==
    /\ pc = "ping"
    /\ \E answer \in ProbeAnswers :
          /\ probed' = Append(probed, answer)
          /\ IF ~IsSome(answer)
             THEN Unresolved
             ELSE IF answer.v.fam = "V4"
             THEN IF ipv6_enabled /\ (ipv6_required \/ ~ipv4_enabled)
                  THEN Unresolved
                  ELSE Resolved(answer, None)
             ELSE IF ipv4_enabled
                  THEN /\ ipv6' = answer
                       /\ calls' = calls \cup Issued({PingV4Call})
                       /\ pc' = "ping_v4"
                       /\ UNCHANGED <<addrs, ipv4, current_records, fetch, exit>>
                  ELSE Resolved(None, answer)
    /\ UNCHANGED <<app, config, targets, task, err_count, applied>>

\* PingReturn sending the IPv4-only probe whenever IPv4 is wanted, whatever
\* the first probe answered.
PingReturnAlwaysSecond ==
    /\ pc = "ping"
    /\ \E answer \in ProbeAnswers :
          /\ probed' = Append(probed, answer)
          /\ IF ~IsSome(answer)
             THEN Unresolved
             ELSE IF answer.v.fam = "V4" /\ ipv6_enabled /\ (ipv6_required \/ ~ipv4_enabled)
             THEN Unresolved
             ELSE IF ipv4_enabled
             THEN /\ ipv6' = IF ipv6_enabled /\ answer.v.fam = "V6" THEN answer ELSE None
                  /\ calls' = calls \cup Issued({PingV4Call})
                  /\ pc' = "ping_v4"
                  /\ UNCHANGED <<addrs, ipv4, current_records, fetch, exit>>
             ELSE Resolved(None, IF ipv6_enabled THEN answer ELSE None)
    /\ UNCHANGED <<app, config, targets, task, err_count, applied>>

\* PingReturn with an IPv4 answer fatal only when IPv6 is required: an
\* IPv6 that is wanted alone and not required resolves to absent.
PingReturnRequiredOnly ==
    /\ pc = "ping"
    /\ \E answer \in ProbeAnswers :
          /\ probed' = Append(probed, answer)
          /\ IF ~IsSome(answer)
             THEN Unresolved
             ELSE IF answer.v.fam = "V4"
             THEN LET v4 == IF ipv4_enabled THEN answer ELSE None
                  IN  IF ipv6_enabled /\ ipv6_required
                      THEN Unresolved
                      ELSE Resolved(v4, None)
             ELSE LET v6 == IF ipv6_enabled THEN answer ELSE None
                  IN  IF ipv4_enabled
                      THEN /\ ipv6' = v6
                           /\ calls' = calls \cup Issued({PingV4Call})
                           /\ pc' = "ping_v4"
                           /\ UNCHANGED <<addrs, ipv4, current_records, fetch, exit>>
                      ELSE Resolved(None, v6)
    /\ UNCHANGED <<app, config, targets, task, err_count, applied>>

\* App::get_addresses from the answer of the first probe on.
PingReturn ==
    /\ pc = "ping"
    /\ \E answer \in ProbeAnswers :
          /\ probed' = Append(probed, answer)
          /\ IF ~IsSome(answer)
             THEN Unresolved
             ELSE IF answer.v.fam = "V4"
             THEN LET v4 == IF ipv4_enabled THEN answer ELSE None
                  IN  IF ipv6_enabled /\ (ipv6_required \/ ~ipv4_enabled)
                      THEN Unresolved
                      ELSE Resolved(v4, None)
             ELSE LET v6 == IF ipv6_enabled THEN answer ELSE None
                  IN  IF ipv4_enabled
                      THEN /\ ipv6' = v6
                           /\ calls' = calls \cup Issued({PingV4Call})
                           /\ pc' = "ping_v4"
                           /\ UNCHANGED <<addrs, ipv4, current_records, fetch, exit>>
                      ELSE Resolved(None, v6)
    /\ UNCHANGED <<app, config, targets, task, err_count, applied>>

\* ping_v4 taking whatever address the endpoint answers with.
ping_v4_any(answer) == answer

\* PorkbunClient::ping_v4 on an answer: an IPv6 address is an error.
ping_v4(answer) ==
    IF IsSome(answer) /\ answer.v.fam = "V4" THEN answer ELSE None

\* PingV4Return with no failure of the IPv4-only probe fatal.
PingV4ReturnLenient ==
    /\ pc = "ping_v4"
    /\ \E answer \in ProbeAnswers :
          /\ probed' = Append(probed, answer)
          /\ Resolved(ping_v4(answer), ipv6)
    /\ UNCHANGED <<app, config, targets, task, err_count, applied>>

\* PingV4Return with every failure of the IPv4-only probe fatal.
PingV4ReturnStrict ==
    /\ pc = "ping_v4"
    /\ \E answer \in ProbeAnswers :
          /\ probed' = Append(probed, answer)
          /\ LET res == ping_v4(answer)
             IN  IF IsSome(res) THEN Resolved(res, ipv6) ELSE Unresolved
    /\ UNCHANGED <<app, config, targets, task, err_count, applied>>

\* App::get_addresses from the answer of the IPv4-only probe on.
PingV4Return ==
    /\ pc = "ping_v4"
    /\ \E answer \in ProbeAnswers :
          /\ probed' = Append(probed, answer)
          /\ LET res == ping_v4(answer)
             IN  IF IsSome(res) THEN Resolved(res, ipv6)
                 ELSE IF ipv4_required \/ ~ipv6_enabled THEN Unresolved
                 ELSE Resolved(None, ipv6)
    /\ UNCHANGED <<app, config, targets, task, err_count, applied>>

(* ------------------------- App::run, the phases ------------------------ *)

\* AllFetched as a join that ends with the first result.
SomeFetched(f) == \E d \in DOMAIN f : f[d] \in {"ok", "err"}

\* AllFetched as try_join_all: the first failed record task ends the join,
\* whichever tasks are still waiting for their answer.
AllFetchedOrFailed(f) ==
    \/ \E d \in DOMAIN f : f[d] = "err"
    \/ \A d \in DOMAIN f : f[d] \in {"ok", "err"}

\* join_all(record_tasks): every record task has given its result.
AllFetched(f) == \A d \in DOMAIN f : f[d] \in {"ok", "err"}

\* AllHandled as try_join_all: the first error ends the join.
AllHandledOrFailed(t) ==
    \/ \E tf \in DOMAIN t : t[tf] = "err"
    \/ \A tf \in DOMAIN t : t[tf] \in {"none", "ok", "err"}

\* AllHandled waiting for every task to succeed: a failed task never ends
\* the join.
AllHandledOk(t) == \A tf \in DOMAIN t : t[tf] \in {"none", "ok"}

\* join_all(target_tasks): every dispatched target task has given its result.
AllHandled(t) == \A tf \in DOMAIN t : t[tf] \in {"none", "ok", "err"}

\* CountErr counting every result that is not Ok: a skipped target counts
\* like a failed one.
CountNotOk(f) == Cardinality({x \in DOMAIN f : f[x] # "ok"})

\* .filter(Result::is_err).count()
CountErr(f) == Cardinality({x \in DOMAIN f : f[x] = "err"})

\* AddrOf falling back on the address of the other family when its own is
\* absent.
AddrOfEither(f, v4, v6) ==
    IF f = "V4" THEN (IF IsSome(v4) THEN v4 ELSE v6)
    ELSE (IF IsSome(v6) THEN v6 ELSE v4)

\* The address a task of family f writes.
AddrOf(f, v4, v6) == IF f = "V4" THEN v4 ELSE v6

\* Dispatched without the test for records: a target whose records are
\* missing gets its tasks all the same.
DispatchedUnchecked(ts, recs, v4, v6, i, f) == IsSome(AddrOf(f, v4, v6))

\* App::run, the target_tasks iterator: TRUE for the (target, family)
\* pairs that get a task.  A target whose domain has no records is skipped.
Dispatched(ts, recs, v4, v6, i, f) ==
    Len(recs[ts[i].domain]) > 0 /\ IsSome(AddrOf(f, v4, v6))

\* Sent with dry_run ignored.
SentAlways(dry, i, f, target, what, addr) ==
    IF what.kind = "Edit" THEN {EditCall(i, f, target, what.id, addr)}
    ELSE IF what.kind = "Create" THEN {CreateCall(i, f, target, addr)}
    ELSE {}

\* The provider call of a task that has decided what: none in a dry run.
Sent(dry, i, f, target, what, addr) ==
    IF dry THEN {}
    ELSE IF what.kind = "Edit" THEN {EditCall(i, f, target, what.id, addr)}
    ELSE IF what.kind = "Create" THEN {CreateCall(i, f, target, addr)}
    ELSE {}

\* The state of a task after its first poll: ended, or awaiting the answer
\* to the call it sent.
Polled(what, sent) ==
    IF what.kind = "Failed" THEN "err"
    ELSE IF sent = {} THEN "ok"
    ELSE "called"

\* main() once App::run has returned n.
ExitOn(n) == Exit(IF n = 0 THEN "SUCCESS" ELSE "FAILURE")

\* Finish with the count of the second join_all assigned to err_count
\* instead of added to it.
FinishForgetsFetch(t, n) ==
    /\ err_count' = CountErr(t)
    /\ ExitOn(CountErr(t))

\* App::run after the second join_all, when the tasks t have all ended.
Finish(t, n) ==
    /\ err_count' = n + CountErr(t)
    /\ ExitOn(n + CountErr(t))

\* AfterFetch with a dry run that does not look at the records: every
\* dispatched task of a dry run reports success at once.
AfterFetchDrySkips(f, recs) ==
    LET ids == (1..Len(targets)) \X Families
        Addr(tf) == AddrOf(tf[2], ipv4, ipv6).v
        What(tf) == IF dry_run THEN [kind |-> "NoChange", id |-> 0]
                    ELSE handle_target(targets[tf[1]], recs[targets[tf[1]].domain], Addr(tf))
        Out(tf) == Sent(dry_run, tf[1], tf[2], targets[tf[1]], What(tf), Addr(tf))
        on == {tf \in ids : Dispatched(targets, recs, ipv4, ipv6, tf[1], tf[2])}
        t == [tf \in ids |-> IF tf \in on THEN Polled(What(tf), Out(tf)) ELSE "none"]
    IN  /\ task' = t
        /\ calls' = calls \cup Issued(UNION {Out(tf) : tf \in on})
        /\ IF AllHandled(t)
           THEN Finish(t, CountErr(f))
           ELSE /\ err_count' = CountErr(f)
                /\ pc' = "targets"
                /\ exit' = exit

\* App::run after the first join_all, with the results f and the records
\* recs: the errors are counted, the target tasks are made, and the second
\* join_all polls each of them once.
AfterFetch(f, recs) ==
    LET ids == (1..Len(targets)) \X Families
        Addr(tf) == AddrOf(tf[2], ipv4, ipv6).v
        What(tf) == handle_target(targets[tf[1]], recs[targets[tf[1]].domain], Addr(tf))
        Out(tf) == Sent(dry_run, tf[1], tf[2], targets[tf[1]], What(tf), Addr(tf))
        on == {tf \in ids : Dispatched(targets, recs, ipv4, ipv6, tf[1], tf[2])}
        t == [tf \in ids |-> IF tf \in on THEN Polled(What(tf), Out(tf)) ELSE "none"]
    IN  /\ task' = t
        /\ calls' = calls \cup Issued(UNION {Out(tf) : tf \in on})
        /\ IF AllHandled(t)
           THEN Finish(t, CountErr(f))
           ELSE /\ err_count' = CountErr(f)
                /\ pc' = "targets"
                /\ exit' = exit

\* The answer to get_existing_records(d) arrives: the records are stored,
\* or the error is logged.  The last answer ends the first join_all.
FetchReturn(d, lists) ==
    /\ pc = "fetch"
    /\ fetch[d] = "called"
    /\ \E answer \in {None} \cup {Some(l) : l \in lists} :
          LET f == [fetch EXCEPT ![d] = IF IsSome(answer) THEN "ok" ELSE "err"]
              recs == IF IsSome(answer)
                      THEN [current_records EXCEPT ![d] = answer.v]
                      ELSE current_records
          IN  /\ fetch' = f
              /\ current_records' = recs
              /\ IF AllFetched(f)
                 THEN AfterFetch(f, recs)
                 ELSE UNCHANGED <<pc, task, err_count, exit, calls>>
    /\ UNCHANGED <<app, config, targets, addrs, ipv4, ipv6, probed, applied>>

\* TaskReturn keeping the record map up to date: a task whose create or
\* edit succeeded stores the record it wrote in the list of its domain.
TaskReturnStores(i, f) ==
    /\ pc = "targets"
    /\ task[<<i, f>>] = "called"
    /\ \E ok \in BOOLEAN :
          LET t == [task EXCEPT ![<<i, f>>] = IF ok THEN "ok" ELSE "err"]
              d == targets[i].domain
              addr == AddrOf(f, ipv4, ipv6).v
              written == DNSRecord(Len(current_records[d]) + 1, d,
                                   dns_type(addr), FormatIp(addr))
          IN  /\ task' = t
              /\ current_records' =
                    IF ok THEN [current_records EXCEPT ![d] = Append(@, written)]
                    ELSE current_records
              /\ IF AllHandled(t)
                 THEN Finish(t, err_count)
                 ELSE UNCHANGED <<pc, err_count, exit>>
    /\ UNCHANGED <<app, config, targets, addrs, ipv4, ipv6, fetch, calls>>
    /\ UNCHANGED <<probed, applied>>

\* TaskReturn sending the request once more when the first answer is an
\* error.
TaskReturnRetries(i, f) ==
    /\ pc = "targets"
    /\ task[<<i, f>>] = "called"
    /\ \E ok \in BOOLEAN :
          LET t == [task EXCEPT ![<<i, f>>] = IF ok THEN "ok" ELSE "err"]
              sent == {c \in calls : c.req.by = ByTask(i, f)}
          IN  IF ~ok /\ \A c \in sent : c.n = 0
              THEN /\ calls' = calls \cup Issued({c.req : c \in sent})
                   /\ UNCHANGED <<task, pc, err_count, exit>>
              ELSE /\ task' = t
                   /\ calls' = calls
                   /\ IF AllHandled(t)
                      THEN Finish(t, err_count)
                      ELSE UNCHANGED <<pc, err_count, exit>>
    /\ UNCHANGED <<app, config, targets, addrs, ipv4, ipv6, current_records, fetch>>
    /\ UNCHANGED <<probed, applied>>

\* The answer to edit_record or create_record arrives.  The last answer
\* ends the second join_all.
TaskReturn(i, f) ==
    /\ pc = "targets"
    /\ task[<<i, f>>] = "called"
    /\ \E ok \in BOOLEAN :
          LET t == [task EXCEPT ![<<i, f>>] = IF ok THEN "ok" ELSE "err"]
          IN  /\ task' = t
              /\ IF AllHandled(t)
                 THEN Finish(t, err_count)
                 ELSE UNCHANGED <<pc, err_count, exit>>
    /\ UNCHANGED <<app, config, targets, addrs, ipv4, ipv6, current_records, fetch, calls>>
    /\ UNCHANGED <<probed, applied>>

\* The record lists listRecords answers with in a whole run.
Zones(d) ==
    { <<>>,
      <<DNSRecord(1, d, "A", "198.51.100.7")>>,
      <<DNSRecord(1, d, "A", "198.51.100.1"), DNSRecord(2, d, "AAAA", "2001:db8::1")>>,
      <<DNSRecord(1, <<"w", ".">> \o d, "A", "198.51.100.1"), DNSRecord(2, d, "A", "198.51.100.7")>>,
      <<DNSRecord(1, d, "CNAME", "host.example")>>,
      <<DNSRecord(1, d, "A", "198.51.100.1"), DNSRecord(2, d, "A", "198.51.100.7")>>,
      <<DNSRecord(1, d, "AAAA", "198.51.100.7")>> }

Next ==
    \/ AppInit
    \/ GetAddresses
    \/ PingReturn
    \/ PingV4Return
    \/ \E d \in DOMAIN fetch : FetchReturn(d, Zones(d))
    \/ \E tf \in DOMAIN task : TaskReturn(tf[1], tf[2])

Spec == Init /\ [][Next]_vars

\* A run in which main() is polled whenever it can go on and every
\* provider call returns in the end: the runtime polls a ready future, and
\* an answer, a result or an error, arrives for every request.
FairSpec == Spec /\ WF_vars(Next)

\* The place of main() in the order of the phases: reading the
\* configuration and resolving the addresses (Idle), fetching the records
\* (AddressesResolved), reconciling the targets (RecordsFetched), returned
\* (TargetsProcessed, Done).
PhaseRank(p) ==
    CASE p = "init" -> 0
      [] p = "start" -> 1
      [] p = "ping" -> 2
      [] p = "ping_v4" -> 3
      [] p = "fetch" -> 4
      [] p = "targets" -> 5
      [] p = "exit" -> 6

(* ---------------- one target against every list of records ------------- *)

\* A run whose configuration lists one target.
InitTarget == Init /\ Len(cfg_targets) = 1

\* The steps of a run, listRecords answering with any list of at most
\* MaxRecords records.
NextTarget ==
    \/ AppInit
    \/ GetAddresses
    \/ PingReturn
    \/ PingV4Return
    \/ \E d \in DOMAIN fetch : FetchReturn(d, RecordLists(d))
    \/ \E tf \in DOMAIN task : TaskReturn(tf[1], tf[2])

SpecTarget == InitTarget /\ [][NextTarget]_vars

(* ------------------------- what the claims read ------------------------ *)

Mutations == {"createRecord", "editRecord"}

\* The calls of the log made by one issuer.
CallsBy(by) == {c \in calls : c.req.by = by}

\* The calls of the log of one operation.
CallsOf(op) == {c \in calls : c.req.op = op}

\* The record name a target stands for: the bare domain, or
\* subdomain + "." + domain.
FullName(target) ==
    IF ~IsSome(target.subdomain) \/ target.subdomain.v = <<"@">>
    THEN target.domain
    ELSE target.subdomain.v \o <<".">> \o target.domain

\* The record type of a family.
FamilyType(f) == IF f = "V4" THEN "A" ELSE "AAAA"

\* The positions of the records that carry the target's name and type typ.
OfType(target, records, typ) ==
    {k \in 1..Len(records) : records[k].name = FullName(target) /\ records[k].typ = typ}

\* A CNAME or ALIAS record carries the target's name.
Aliased(target, records) ==
    OfType(target, records, "CNAME") \cup OfType(target, records, "ALIAS") # {}

\* The failures of a run: record tasks and target tasks that ended in error.
FetchFailures == Cardinality({d \in DOMAIN fetch : fetch[d] = "err"})

TaskFailures == Cardinality({tf \in DOMAIN task : task[tf] = "err"})

\* The records and the address the task tf works on.
TaskTarget(tf) == targets[tf[1]]

TaskRecords(tf) == current_records[targets[tf[1]].domain]

TaskAddr(tf) == AddrOf(tf[2], ipv4, ipv6)

(* ------------------- Target::matches_record on its own ----------------- *)

\* The longest record name matches_record is applied to.
MaxNameLen == 6

\* The characters of the names: two letters and the separator.
Alphabet == {"w", "c", "."}

\* Every record name of at most MaxNameLen characters.
Names == SeqsUpTo(Alphabet, MaxNameLen)

\* The targets matches_record is applied for: a one-label and a two-label
\* domain, without subdomain, with "@", and with subdomains of one and two
\* characters.
MatchTargets ==
    { Target(d, s, 600) :
        d \in {<<"c">>, <<"w", ".", "c">>},
        s \in {None, Some(<<"@">>), Some(<<"w">>), Some(<<"w", "w">>)} }

\* No run is under way: main() has not been entered.
NotStarted ==
    /\ app = "pending"
    /\ pc = "init"
    /\ dry_run = FALSE
    /\ ipv4_mode = "Disabled"
    /\ ipv6_mode = "Disabled"
    /\ cfg_targets = <<>>
    /\ targets = <<>>
    /\ addrs = "pending"
    /\ ipv4 = None
    /\ ipv6 = None
    /\ current_records = NoRecords
    /\ fetch = NoRecords
    /\ task = NoTasks
    /\ err_count = 0
    /\ calls = {}
    /\ exit = "none"
    /\ probed = <<>>

\* A target and a record of any name, before matches_record is called.
InitMatch ==
    /\ NotStarted
    /\ arg \in {Some([target |-> t, record |-> DNSRecord(1, n, "A", "198.51.100.7")]) :
                   t \in MatchTargets, n \in Names}
    /\ ret = None

\* target.matches_record(&record) is called and returns.
Matches ==
    /\ IsSome(arg)
    /\ ~IsSome(ret)
    /\ ret' = Some(matches_record(arg.v.target, arg.v.record))
    /\ UNCHANGED <<app, pc, config, targets, addrs, ipv4, ipv6, current_records, fetch,
                   task, err_count, calls, exit, probed, arg>>

NextMatch == Matches

SpecMatch == InitMatch /\ [][NextMatch]_vars

\* The target that names the same record as a root target in the other
\* spelling: "@" for no subdomain and no subdomain for "@".
Twin(target) ==
    IF IsSome(target.subdomain)
    THEN Target(target.domain, None, target.ttl)
    ELSE Target(target.domain, Some(<<"@">>), target.ttl)

\* Some probe of the run has answered with an address of family f.
Got(f) == \E k \in 1..Len(probed) : IsSome(probed[k]) /\ probed[k].v.fam = f

\* The first probe has answered with an address of family f.
FirstProbe(f) == Len(probed) >= 1 /\ IsSome(probed[1]) /\ probed[1].v.fam = f

(* ------------------ App::handle_target called twice alike -------------- *)

\* The two tasks that are given the same target, records and address.
DecideTasks == {1, 2}

\* A target, the records of its domain and an address, before either task
\* has run.
InitDecide ==
    /\ NotStarted
    /\ arg \in UNION { {Some([target |-> t, records |-> l, addr |-> a]) :
                            l \in RecordLists(t.domain), a \in {Cur4, Cur6}} :
                         t \in TargetPool }
    /\ ret = None

\* The decisions taken so far, task by task.
Decided == IF IsSome(ret) THEN ret.v ELSE <<>>

\* Decide with a look at the requests already sent: a task that sees the
\* other task's request under way takes the record for up to date.
DecideAfterOther(k) ==
    /\ IsSome(arg)
    /\ k \notin DOMAIN Decided
    /\ LET inp == arg.v
           what == IF calls # {}
                   THEN [kind |-> "NoChange", id |-> 0]
                   ELSE handle_target(inp.target, inp.records, inp.addr)
           out == Sent(dry_run, k, inp.addr.fam, inp.target, what, inp.addr)
       IN  /\ ret' = Some([j \in DOMAIN Decided \cup {k} |->
                              IF j = k THEN what ELSE Decided[j]])
           /\ calls' = calls \cup Issued(out)
    /\ UNCHANGED <<app, pc, config, targets, addrs, ipv4, ipv6, current_records, fetch,
                   task, err_count, exit, probed, arg>>

\* Task k runs App::handle_target on the inputs up to its first await: it
\* scans the records, decides, and sends the request the decision calls
\* for.
Decide(k) ==
    /\ IsSome(arg)
    /\ k \notin DOMAIN Decided
    /\ LET inp == arg.v
           what == handle_target(inp.target, inp.records, inp.addr)
           out == Sent(dry_run, k, inp.addr.fam, inp.target, what, inp.addr)
       IN  /\ ret' = Some([j \in DOMAIN Decided \cup {k} |->
                              IF j = k THEN what ELSE Decided[j]])
           /\ calls' = calls \cup Issued(out)
    /\ UNCHANGED <<app, pc, config, targets, addrs, ipv4, ipv6, current_records, fetch,
                   task, err_count, exit, probed, arg>>

NextDecide == \E k \in DecideTasks : Decide(k)

SpecDecide == InitDecide /\ [][NextDecide]_vars

(* ------------- App::handle_target on a list and on a changed list ------ *)

\* The longest record list handle_target is applied to here.
MaxScanLen == 3

\* The records of the lists: current and stale addresses of both families,
\* a CNAME, an ALIAS and a TXT record under the root name, and an address
\* under the name of subdomain "w".
ScanShapes(d) ==
    { [name |-> d, typ |-> "A", content |-> "198.51.100.7"],
      [name |-> d, typ |-> "A", content |-> "198.51.100.1"],
      [name |-> d, typ |-> "AAAA", content |-> "2001:db8::1"],
      [name |-> d, typ |-> "CNAME", content |-> "host.example"],
      [name |-> d, typ |-> "ALIAS", content |-> "host.example"],
      [name |-> d, typ |-> "TXT", content |-> "198.51.100.7"],
      [name |-> <<"w", ".">> \o d, typ |-> "A", content |-> "198.51.100.1"] }

\* Every list of at most MaxScanLen such records, the record at position i
\* having ID i.
ScanLists(d) ==
    { [i \in 1..Len(l) |-> DNSRecord(i, l[i].name, l[i].typ, l[i].content)] :
        l \in SeqsUpTo(ScanShapes(d), MaxScanLen) }

\* A target, a list of records of its domain and an address.
InitScan ==
    /\ NotStarted
    /\ arg \in {Some([target |-> t, records |-> l, addr |-> a]) :
                   t \in {Target(DomA, None, 600), Target(DomA, Some(<<"w">>), 300)},
                   l \in ScanLists(DomA),
                   a \in {Cur4, Cur6}}
    /\ ret = None

\* The records in the order p gives: position k holds the record p[k].
Permute(records, p) == [k \in 1..Len(records) |-> records[p[k]]]

\* The records from position i on without those at the positions drop.
RECURSIVE Without(_, _, _)
Without(records, drop, i) ==
    IF i > Len(records) THEN <<>>
    ELSE IF i \in drop THEN Without(records, drop, i + 1)
    ELSE <<records[i]>> \o Without(records, drop, i + 1)

\* The positions of the records handle_target passes over for type typ:
\* those of another name, and those of the target's name whose type is
\* neither typ nor CNAME nor ALIAS.
PassedOver(target, records, typ) ==
    {k \in 1..Len(records) :
        \/ records[k].name # FullName(target)
        \/ records[k].typ \notin {typ, "CNAME", "ALIAS"}}

\* What handle_target decides and sends for the list of arg and for the
\* list changed.
Compared(how, changed) ==
    LET inp == arg.v
        base == handle_target(inp.target, inp.records, inp.addr)
        other == handle_target(inp.target, changed, inp.addr)
    IN  [how |-> how, list |-> changed, base |-> base, other |-> other,
         base_call |-> Sent(dry_run, 1, inp.addr.fam, inp.target, base, inp.addr),
         other_call |-> Sent(dry_run, 1, inp.addr.fam, inp.target, other, inp.addr)]

\* handle_target runs on the list and on the same records in another order.
Reorder ==
    /\ IsSome(arg)
    /\ ~IsSome(ret)
    /\ \E p \in Permutations(1..Len(arg.v.records)) :
          ret' = Some(Compared("reorder", Permute(arg.v.records, p)))
    /\ UNCHANGED <<app, pc, config, targets, addrs, ipv4, ipv6, current_records, fetch,
                   task, err_count, calls, exit, probed, arg>>

\* handle_target runs on the list and on the list without some of the
\* records it passes over.
Prune ==
    /\ IsSome(arg)
    /\ ~IsSome(ret)
    /\ \E drop \in SUBSET PassedOver(arg.v.target, arg.v.records, dns_type(arg.v.addr)) :
          ret' = Some(Compared("prune", Without(arg.v.records, drop, 1)))
    /\ UNCHANGED <<app, pc, config, targets, addrs, ipv4, ipv6, current_records, fetch,
                   task, err_count, calls, exit, probed, arg>>

NextScan == Reorder \/ Prune

SpecScan == InitScan /\ [][NextScan]_vars

(* --------------------- the provider between two runs ------------------- *)

\* The record name a create or edit request stands for: the payload
\* carries the subdomain alone, the URL carries the domain.
ProviderName(req) ==
    IF req.name = <<>> THEN req.domain ELSE req.name \o <<".">> \o req.domain

\* The records of a domain once the provider has applied one successful
\* request: an edit rewrites the record of the given id, a create adds a
\* record under a fresh id.
ProviderApply(records, req) ==
    IF req.op = "editRecord"
    THEN [k \in 1..Len(records) |->
            IF records[k].id = req.id
            THEN DNSRecord(req.id, ProviderName(req), req.typ, req.content)
            ELSE records[k]]
    ELSE Append(records,
                DNSRecord(Len(records) + 1, ProviderName(req), req.typ, req.content))

\* The tasks of a run in the order App::run builds them: target by target,
\* IPv4 before IPv6.
TaskOrder ==
    [k \in 1..(2 * Len(targets)) |->
        <<(k + 1) \div 2, IF k % 2 = 1 THEN "V4" ELSE "V6">>]

\* The records of domain d once the provider has applied the successful
\* requests of the tasks from position k of TaskOrder on.
RECURSIVE ApplyTasks(_, _, _)
ApplyTasks(records, d, k) ==
    IF k > Len(TaskOrder) THEN records
    ELSE LET tf == TaskOrder[k]
             by == CallsBy(ByTask(tf[1], tf[2]))
         IN  IF tf \in DOMAIN task /\ task[tf] = "ok" /\ by # {}
                /\ targets[tf[1]].domain = d
             THEN ApplyTasks(ProviderApply(records, (CHOOSE c \in by : TRUE).req), d, k + 1)
             ELSE ApplyTasks(records, d, k + 1)

\* What listRecords answers in a run that follows this one: the records
\* this run fetched, with its successful creates and edits applied.
AfterRun == [d \in DOMAIN current_records |-> ApplyTasks(current_records[d], d, 1)]

\* What handle_target decides for the task tf of the run.
Decision(tf) == handle_target(TaskTarget(tf), TaskRecords(tf), TaskAddr(tf).v)

\* The probes and listRecords requests a run has made when it has got as
\* far as it has: the first probe once get_addresses has gone past its
\* early return, the IPv4-only probe once it was called for, and one
\* listRecords request for every record task.
ReadsSoFar ==
    (IF pc = "ping" \/ Len(probed) >= 1 THEN {PingCall} ELSE {})
        \cup (IF pc = "ping_v4" \/ Len(probed) = 2 THEN {PingV4Call} ELSE {})
        \cup {ListCall(d) : d \in DOMAIN fetch}

(* -------------------------------- claims ------------------------------- *)

\* C1: a listRecords call is in the log only once address resolution has
\* returned successfully and no probe is outstanding; a createRecord or
\* editRecord call is in the log only once every record task of the run
\* has been called and has given its result.  The log only grows and the
\* results are never withdrawn, so the three phases never overlap.
C1_PhaseBarrier ==
    \A c \in calls :
        /\ c.req.op = "listRecords" =>
              /\ addrs = "ok"
              /\ pc \in {"fetch", "targets", "exit"}
        /\ c.req.op \in Mutations =>
              /\ pc \in {"targets", "exit"}
              /\ DOMAIN fetch = TargetDomains(targets)
              /\ \A d \in DOMAIN fetch :
                    /\ fetch[d] \in {"ok", "err"}
                    /\ \E l \in CallsOf("listRecords") : l.req.domain = d

C1_Witness ==
    /\ pc = "targets"
    /\ CallsOf("ping_v4") # {}
    /\ CallsOf("editRecord") # {}
    /\ CallsOf("createRecord") # {}
    /\ \E d, e \in DOMAIN fetch : fetch[d] = "ok" /\ fetch[e] = "err"

\* C2: once get_addresses has returned an error the run has ended with
\* FAILURE and the log holds no listRecords, createRecord or editRecord
\* call.
C2_ResolutionFailureIsFatal ==
    addrs = "err" =>
        /\ pc = "exit"
        /\ exit = "FAILURE"
        /\ \A c \in calls : c.req.op \in {"ping", "ping_v4"}

C2_Witness ==
    /\ addrs = "err"
    /\ CallsOf("ping_v4") # {}
    /\ Len(targets) = MaxTargets

\* C3: a run that passed App::init and has ended has status SUCCESS exactly
\* when address resolution succeeded and no record task and no target task
\* failed.
C3_ExitStatus ==
    (pc = "exit" /\ app = "ok") =>
        (exit = "SUCCESS" <=> (addrs = "ok" /\ FetchFailures + TaskFailures = 0))

C3_Witness ==
    /\ pc = "exit"
    /\ app = "ok"
    /\ exit = "FAILURE"
    /\ FetchFailures = 1
    /\ TaskFailures = 0
    /\ \E tf \in DOMAIN task : task[tf] = "ok"

\* C4: when listRecords failed for a domain, no target of that domain has
\* a task and no createRecord or editRecord call names the domain; and a
\* run that ends with one failed domain and no failed task returns 1,
\* however many targets the domain has.
C4_FailedDomainSkipped ==
    /\ \A d \in DOMAIN fetch : fetch[d] = "err" =>
          /\ \A c \in calls : c.req.op \in Mutations => c.req.domain # d
          /\ \A tf \in DOMAIN task : TaskTarget(tf).domain = d => task[tf] = "none"
    /\ (pc = "exit" /\ FetchFailures = 1 /\ TaskFailures = 0) => err_count = 1

C4_Witness ==
    /\ pc = "exit"
    /\ Len(targets) = 2
    /\ targets[1].domain = targets[2].domain
    /\ targets[1].domain \in DOMAIN fetch
    /\ fetch[targets[1].domain] = "err"
    /\ IsSome(ipv4)
    /\ IsSome(ipv6)
    /\ err_count = 1

\* C5: in a run that has ended and in which some listRecords call failed,
\* every record task has given its result, and every target of a domain
\* whose listRecords call succeeded has been reconciled for every resolved
\* family (its task ran and ended).
C5_FailedFetchAbortsNothing ==
    (pc = "exit" /\ FetchFailures > 0) =>
        /\ \A d \in DOMAIN fetch : fetch[d] \in {"ok", "err"}
        /\ \A tf \in DOMAIN task :
              (fetch[TaskTarget(tf).domain] = "ok" /\ IsSome(TaskAddr(tf)))
                  => task[tf] \in {"ok", "err"}

\* C6: every dispatched task has issued exactly the call its own target,
\* its own domain's records and its address call for, whatever became of
\* the other tasks, a task that found an error has failed without a call,
\* and when the run has ended every dispatched task has ended.
C6_TasksIndependent ==
    \A tf \in DOMAIN task : task[tf] # "none" =>
        LET what == handle_target(TaskTarget(tf), TaskRecords(tf), TaskAddr(tf).v)
            due == Sent(dry_run, tf[1], tf[2], TaskTarget(tf), what, TaskAddr(tf).v)
        IN  /\ CallsBy(ByTask(tf[1], tf[2])) = {[req |-> r, n |-> 0] : r \in due}
            /\ what.kind = "Failed" => task[tf] = "err"
            /\ (what.kind # "Failed" /\ due = {}) => task[tf] = "ok"
            /\ pc = "exit" => task[tf] \in {"ok", "err"}

C6_Witness ==
    /\ pc = "exit"
    /\ \E tf, ug \in DOMAIN task :
          /\ tf # ug
          /\ task[tf] = "err"
          /\ CallsBy(ByTask(tf[1], tf[2])) # {}
          /\ task[ug] = "ok"
          /\ CallsBy(ByTask(ug[1], ug[2])) # {}

\* C7: in a dry run the log never holds a createRecord or editRecord call,
\* while the probe is still called whenever a family is enabled and
\* listRecords is still called for the domain of every target once the
\* addresses are resolved.
C7_DryRun ==
    dry_run =>
        /\ \A c \in calls : c.req.op \notin Mutations
        /\ (app = "ok" /\ pc # "start" /\ mode_count > 0) => CallsOf("ping") # {}
        /\ (addrs = "ok" /\ (IsSome(ipv4) \/ IsSome(ipv6))) =>
              \A i \in 1..Len(targets) :
                  \E c \in CallsOf("listRecords") : c.req.domain = targets[i].domain

C7_Witness ==
    /\ dry_run
    /\ pc = "exit"
    /\ CallsOf("ping_v4") # {}
    /\ \E tf, ug \in DOMAIN task :
          /\ task[tf] = "ok"
          /\ handle_target(TaskTarget(tf), TaskRecords(tf), TaskAddr(tf).v).kind = "Edit"
          /\ task[ug] = "ok"
          /\ handle_target(TaskTarget(ug), TaskRecords(ug), TaskAddr(ug).v).kind = "Create"

\* C8: a task whose target's name and family's type are carried by exactly
\* one record of the domain, with no CNAME or ALIAS record of that name,
\* the record's content parsing to the resolved address, has ended in
\* success and has issued no call.
C8_NoChange ==
    \A tf \in DOMAIN task : IsSome(TaskAddr(tf)) =>
        LET own == OfType(TaskTarget(tf), TaskRecords(tf), FamilyType(tf[2]))
        IN  ( /\ Cardinality(own) = 1
              /\ ~Aliased(TaskTarget(tf), TaskRecords(tf))
              /\ \A k \in own : ParseIp(TaskRecords(tf)[k].content) = Some(TaskAddr(tf).v) )
            => /\ task[tf] = "ok"
               /\ CallsBy(ByTask(tf[1], tf[2])) = {}

C8_Witness ==
    /\ ~dry_run
    /\ pc = "exit"
    /\ \E tf \in DOMAIN task :
          /\ tf[2] = "V6"
          /\ task[tf] = "ok"
          /\ CallsBy(ByTask(tf[1], tf[2])) = {}
          /\ Len(TaskRecords(tf)) = 2
          /\ \E k \in OfType(TaskTarget(tf), TaskRecords(tf), "AAAA") :
                TaskRecords(tf)[k].content # FormatIp(TaskAddr(tf).v)

\* C9: outside a dry run, a task whose target's name and family's type are
\* carried by exactly one record of the domain, with no CNAME or ALIAS
\* record of that name, the record's content parsing to an address of the
\* family other than the resolved one, has issued exactly one call: an
\* editRecord with that record's ID, the target's domain and the resolved
\* address.
C9_Edit ==
    \A tf \in DOMAIN task : (IsSome(TaskAddr(tf)) /\ ~dry_run) =>
        LET own == OfType(TaskTarget(tf), TaskRecords(tf), FamilyType(tf[2]))
            by == CallsBy(ByTask(tf[1], tf[2]))
        IN  \A k \in own :
              ( /\ Cardinality(own) = 1
                /\ ~Aliased(TaskTarget(tf), TaskRecords(tf))
                /\ IsSome(ParseIp(TaskRecords(tf)[k].content))
                /\ ParseIp(TaskRecords(tf)[k].content).v.fam = tf[2]
                /\ ParseIp(TaskRecords(tf)[k].content).v # TaskAddr(tf).v )
              => /\ Cardinality(by) = 1
                 /\ \A c \in by :
                       /\ c.req.op = "editRecord"
                       /\ c.req.id = TaskRecords(tf)[k].id
                       /\ c.req.domain = TaskTarget(tf).domain
                       /\ c.req.content = TaskAddr(tf).v.val
                       /\ c.n = 0

C9_Witness ==
    /\ ~dry_run
    /\ pc = "exit"
    /\ \E tf \in DOMAIN task :
          /\ task[tf] = "ok"
          /\ \E c \in CallsBy(ByTask(tf[1], tf[2])) : c.req.op = "editRecord" /\ c.req.id = 2
          /\ OfType(TaskTarget(tf), TaskRecords(tf), FamilyType(tf[2])) = {2}
          /\ TaskRecords(tf)[1].name = FullName(TaskTarget(tf))

\* C10: outside a dry run, a dispatched task whose target's name and
\* family's type are carried by no record of the domain, with no CNAME or
\* ALIAS record of that name, has issued exactly one call: a createRecord
\* with the resolved address.
C10_Create ==
    \A tf \in DOMAIN task : (task[tf] # "none" /\ ~dry_run) =>
        LET by == CallsBy(ByTask(tf[1], tf[2]))
        IN  ( /\ OfType(TaskTarget(tf), TaskRecords(tf), FamilyType(tf[2])) = {}
              /\ ~Aliased(TaskTarget(tf), TaskRecords(tf)) )
            => /\ Cardinality(by) = 1
               /\ \A c \in by :
                     /\ c.req.op = "createRecord"
                     /\ c.req.domain = TaskTarget(tf).domain
                     /\ c.req.content = TaskAddr(tf).v.val
                     /\ c.n = 0

C10_Witness ==
    /\ ~dry_run
    /\ pc = "exit"
    /\ \E tf \in DOMAIN task :
          /\ task[tf] = "err"
          /\ CallsOf("createRecord") = CallsBy(ByTask(tf[1], tf[2]))
          /\ CallsOf("createRecord") # {}
          /\ Len(TaskRecords(tf)) = 2
          /\ \A k \in 1..2 : TaskRecords(tf)[k].typ = FamilyType(tf[2])

\* C11: a domain whose listRecords call succeeded with no record at all is
\* not skipped: once its records are in, each of its targets has a task for
\* every resolved family, and outside a dry run each such task has issued
\* a createRecord call; only a failed listRecords call leaves a target
\* without a task.
C11_EmptyZoneIsReconciled ==
    /\ \A tf \in DOMAIN task :
          ( /\ pc \in {"targets", "exit"}
            /\ fetch[TaskTarget(tf).domain] = "ok"
            /\ TaskRecords(tf) = <<>>
            /\ IsSome(TaskAddr(tf)) )
          => /\ task[tf] # "none"
             /\ ~dry_run =>
                   \E c \in CallsBy(ByTask(tf[1], tf[2])) : c.req.op = "createRecord"
    /\ \A tf \in DOMAIN task :
          (pc \in {"targets", "exit"} /\ task[tf] = "none" /\ IsSome(TaskAddr(tf)))
              => fetch[TaskTarget(tf).domain] = "err"

\* C12: a dispatched task that finds two or more records carrying its
\* target's name and its family's type has failed, is counted once among
\* the failures, and has issued no createRecord and no editRecord call.
C12_DuplicatesFail ==
    \A tf \in DOMAIN task :
        ( /\ task[tf] # "none"
          /\ Cardinality(OfType(TaskTarget(tf), TaskRecords(tf), FamilyType(tf[2]))) >= 2 )
        => /\ task[tf] = "err"
           /\ CallsBy(ByTask(tf[1], tf[2])) = {}
           /\ pc = "exit" => err_count = FetchFailures + TaskFailures

C12_Witness ==
    /\ ~dry_run
    /\ pc = "exit"
    /\ err_count = 1
    /\ \E tf \in DOMAIN task :
          /\ task[tf] = "err"
          /\ calls \cap (CallsOf("createRecord") \cup CallsOf("editRecord")) = {}
          /\ OfType(TaskTarget(tf), TaskRecords(tf), FamilyType(tf[2])) = {1, 2}
          /\ TaskRecords(tf)[1].content # TaskRecords(tf)[2].content
          /\ \E k \in 1..2 : ParseIp(TaskRecords(tf)[k].content) = TaskAddr(tf)

\* C13: a dispatched task that finds a CNAME or ALIAS record carrying its
\* target's name has failed, is counted once among the failures, and has
\* issued no createRecord and no editRecord call, whether or not a record
\* of the family's type exists and whatever address that record holds.
C13_AliasFails ==
    \A tf \in DOMAIN task :
        (task[tf] # "none" /\ Aliased(TaskTarget(tf), TaskRecords(tf)))
        => /\ task[tf] = "err"
           /\ CallsBy(ByTask(tf[1], tf[2])) = {}
           /\ pc = "exit" => err_count = FetchFailures + TaskFailures

C13_Witness ==
    /\ ~dry_run
    /\ pc = "exit"
    /\ err_count = 1
    /\ \E tf \in DOMAIN task :
          /\ task[tf] = "err"
          /\ CallsBy(ByTask(tf[1], tf[2])) = {}
          /\ OfType(TaskTarget(tf), TaskRecords(tf), FamilyType(tf[2])) = {1}
          /\ ParseIp(TaskRecords(tf)[1].content) = TaskAddr(tf)
          /\ OfType(TaskTarget(tf), TaskRecords(tf), "ALIAS") = {2}

\* C14: for a target with a subdomain other than "@", matches_record
\* returns true exactly for the records whose name is the subdomain, a
\* dot and the domain, whatever the name of the record is.
C14_SubdomainMatch ==
    ( /\ IsSome(ret)
      /\ IsSome(arg.v.target.subdomain)
      /\ arg.v.target.subdomain.v # <<"@">> )
    => ret.v = (arg.v.record.name
                   = arg.v.target.subdomain.v \o <<".">> \o arg.v.target.domain)

C14_Witness ==
    /\ ret = Some(TRUE)
    /\ arg.v.target.subdomain = Some(<<"w", "w">>)
    /\ arg.v.target.domain = <<"w", ".", "c">>
    /\ arg.v.record.name = <<"w", "w", ".", "w", ".", "c">>

\* C15: for a target with subdomain "@" or with no subdomain,
\* matches_record returns true exactly for the records whose name is the
\* bare domain, and it returns for the one spelling what it returns for
\* the other.
C15_RootMatch ==
    ( /\ IsSome(ret)
      /\ (~IsSome(arg.v.target.subdomain) \/ arg.v.target.subdomain.v = <<"@">>) )
    => /\ ret.v = (arg.v.record.name = arg.v.target.domain)
       /\ ret.v = matches_record(Twin(arg.v.target), arg.v.record)

C15_Witness ==
    /\ ret = Some(TRUE)
    /\ arg.v.target.subdomain = Some(<<"@">>)
    /\ arg.v.record.name = arg.v.target.domain
    /\ Len(arg.v.target.domain) = 3

\* C16: once get_addresses has returned after a first probe that answered
\* with an IPv4 address: with IPv6 in Try mode it has succeeded with IPv6
\* absent, and with IPv4 the probed address when IPv4 is wanted, whatever
\* the IPv4 mode is; with IPv6 in Enabled mode it has failed.
C16_TryToleratesV4Probe ==
    (addrs # "pending" /\ FirstProbe("V4")) =>
        /\ ipv6_mode = "Try" =>
              /\ addrs = "ok"
              /\ ipv6 = None
              /\ ipv4_enabled => ipv4 = probed[1]
        /\ ipv6_mode = "Enabled" => addrs = "err"

\* C16, amended: once get_addresses has returned after a first probe that
\* answered with an IPv4 address: with IPv6 in Try mode and IPv4 wanted
\* (Enabled or Try) it has succeeded with IPv6 absent and IPv4 the probed
\* address; with IPv6 in Try mode and IPv4 Disabled it has failed, IPv6
\* being the only family wanted; with IPv6 in Enabled mode it has failed.
C16_TryToleratesV4ProbeBesideV4 ==
    (addrs # "pending" /\ FirstProbe("V4")) =>
        /\ (ipv6_mode = "Try" /\ ipv4_mode # "Disabled") =>
              /\ addrs = "ok"
              /\ ipv6 = None
              /\ ipv4 = probed[1]
        /\ (ipv6_mode = "Try" /\ ipv4_mode = "Disabled") => addrs = "err"
        /\ ipv6_mode = "Enabled" => addrs = "err"

C16_Witness ==
    /\ FirstProbe("V4")
    /\ ipv6_mode = "Try"
    /\ ipv4_mode = "Disabled"
    /\ addrs = "err"
    /\ exit = "FAILURE"
    /\ Len(targets) > 0

C18_SecondProbeFailure ==
    ( /\ addrs # "pending"
      /\ FirstProbe("V6")
      /\ ipv4_mode # "Disabled"
      /\ Len(probed) = 2
      /\ ~(IsSome(probed[2]) /\ probed[2].v.fam = "V4") )
    => /\ addrs = "err" <=> (ipv4_mode = "Enabled" \/ ipv6_mode = "Disabled")
       /\ addrs # "err" =>
             /\ addrs = "ok"
             /\ ipv4 = None
             /\ ipv6 = probed[1]

C18_Witness ==
    /\ probed = <<Some(Cur6), Some(Cur6)>>
    /\ ipv4_mode = "Try"
    /\ ipv6_mode = "Enabled"
    /\ addrs = "ok"
    /\ ipv4 = None
    /\ ipv6 = Some(Cur6)
    /\ pc = "exit"

\* C19: with IPv4 and IPv6 both Disabled no provider call is ever issued,
\* and a run that got as far as get_addresses ends with get_addresses
\* having returned (None, None) and with the success status.
C19_BothDisabled ==
    (ipv4_mode = "Disabled" /\ ipv6_mode = "Disabled") =>
        /\ calls = {}
        /\ pc \in {"init", "start", "exit"}
        /\ (pc = "exit" /\ app = "ok") =>
              /\ addrs = "ok"
              /\ ipv4 = None
              /\ ipv6 = None
              /\ exit = "SUCCESS"

C19_Witness ==
    /\ ipv4_mode = "Disabled"
    /\ ipv6_mode = "Disabled"
    /\ Len(targets) = 2
    /\ ~dry_run
    /\ pc = "exit"
    /\ exit = "SUCCESS"
    /\ calls = {}

\* C20: when a run outside dry-run has ended, a second run with the same
\* configuration and addresses, fetching the records as the provider
\* holds them after applying every successful create and edit of the
\* first, dispatches every task that created or edited a record in the
\* first run, and that task finds nothing to change: it issues no call
\* and succeeds.
C20_SecondRunChangesNothing ==
    (pc = "exit" /\ ~dry_run) =>
        \A tf \in DOMAIN task :
            (task[tf] = "ok" /\ CallsBy(ByTask(tf[1], tf[2])) # {}) =>
                /\ Dispatched(targets, AfterRun, ipv4, ipv6, tf[1], tf[2])
                /\ handle_target(TaskTarget(tf), AfterRun[TaskTarget(tf).domain],
                                 TaskAddr(tf).v).kind = "NoChange"

\* C21: when the configuration lists two targets with the same domain and
\* the same subdomain, App::init fails: the run never gets past it, ends
\* with the failure status, and issues no provider call.
C21_DuplicateTargetsRejected ==
    (\E i, j \in 1..Len(cfg_targets) :
        /\ i # j
        /\ cfg_targets[i].domain = cfg_targets[j].domain
        /\ cfg_targets[i].subdomain = cfg_targets[j].subdomain)
    => /\ app # "ok"
       /\ pc \in {"init", "exit"}
       /\ calls = {}
       /\ pc = "exit" => (app = "err" /\ exit = "FAILURE")

C21_Witness ==
    /\ Len(cfg_targets) = 2
    /\ cfg_targets[1] = cfg_targets[2]
    /\ ~IsSome(cfg_targets[1].subdomain)
    /\ ipv4_mode = "Enabled"
    /\ pc = "exit"
    /\ app = "err"
    /\ exit = "FAILURE"

\* C22: when App::run has returned, its value is the number of domains
\* whose listRecords call failed plus the number of tasks that failed:
\* skipped targets and successful tasks add nothing.
C22_ErrCount ==
    (pc = "exit" /\ DOMAIN fetch # {}) =>
        err_count = Cardinality({d \in DOMAIN fetch : fetch[d] = "err"})
                  + Cardinality({tf \in DOMAIN task : task[tf] = "err"})

C22_Witness ==
    /\ pc = "exit"
    /\ err_count = 2
    /\ \E d \in DOMAIN fetch : fetch[d] = "err"
    /\ \E tf \in DOMAIN task : task[tf] = "err"
    /\ \E tf \in DOMAIN task : task[tf] = "ok"
    /\ \E tf \in DOMAIN task : task[tf] = "none" /\ IsSome(TaskAddr(tf))

\* C23: no call is repeated: every request is in the log once, a domain
\* has at most one listRecords call, and a task has at most one call in
\* all, a createRecord or an editRecord, whether or not that call failed.
C23_NoRetry ==
    /\ \A c \in calls : c.n = 0
    /\ \A d \in Domains :
          Cardinality({c \in CallsOf("listRecords") : c.req.domain = d}) <= 1
    /\ \A tf \in DOMAIN task :
          /\ Cardinality(CallsBy(ByTask(tf[1], tf[2]))) <= 1
          /\ \A c \in CallsBy(ByTask(tf[1], tf[2])) : c.req.op \in Mutations

C23_Witness ==
    /\ pc = "exit"
    /\ \E tf \in DOMAIN task :
          /\ task[tf] = "err"
          /\ Cardinality(CallsBy(ByTask(tf[1], tf[2]))) = 1
    /\ \E d \in DOMAIN fetch : fetch[d] = "err"

\* C24: no two tasks of a run have issued a createRecord or editRecord
\* call for the same record, that is for the same record name and the
\* same record type.
C24_NoSharedRecord ==
    \A c1, c2 \in calls :
        ( /\ c1.req.op \in Mutations
          /\ c2.req.op \in Mutations
          /\ c1.req.by # c2.req.by )
        => ~( /\ ProviderName(c1.req) = ProviderName(c2.req)
              /\ c1.req.typ = c2.req.typ )

C26_Terminates ==
    /\ <>(pc = "exit" /\ exit \in {"SUCCESS", "FAILURE"})
    /\ [][PhaseRank(pc') >= PhaseRank(pc)]_vars

C26_Witness ==
    /\ pc = "exit"
    /\ exit = "FAILURE"
    /\ Len(probed) = 2
    /\ Cardinality(DOMAIN fetch) = 2
    /\ \A d \in DOMAIN fetch : fetch[d] = "ok"
    /\ \E tf \in DOMAIN task : task[tf] = "err" /\ CallsBy(ByTask(tf[1], tf[2])) # {}
    /\ \E tf \in DOMAIN task : task[tf] = "ok" /\ CallsBy(ByTask(tf[1], tf[2])) # {}

\* C27: once the run has begun to fetch, the log holds exactly one
\* listRecords call for every domain some target names, however many
\* targets name it, and none for any other domain.
C27_OneFetchPerDomain ==
    DOMAIN fetch # {} =>
        /\ \A d \in Domains :
              Cardinality({c \in CallsOf("listRecords") : c.req.domain = d})
                  = IF \E i \in 1..Len(targets) : targets[i].domain = d THEN 1 ELSE 0
        /\ \A c \in CallsOf("listRecords") : c.req.domain \in Domains /\ c.n = 0

C27_Witness ==
    /\ pc = "exit"
    /\ Len(targets) = 2
    /\ targets[1].domain = DomA
    /\ targets[2].domain = DomA
    /\ Cardinality(CallsOf("listRecords")) = 1
    /\ \A tf \in DOMAIN task : IsSome(TaskAddr(tf)) => task[tf] = "ok"
    /\ IsSome(ipv4)

\* C28: a task exists only for a family whose address is resolved (and so
\* wanted) and for a target whose domain was fetched; a pair of target
\* and family that has no task has issued no call, and a task has issued
\* at most one call, so no pair is dispatched twice.
C28_DispatchOnlyResolved ==
    \A tf \in DOMAIN task :
        /\ task[tf] # "none" =>
              /\ tf[2] = "V4" => (IsSome(ipv4) /\ ipv4_mode # "Disabled")
              /\ tf[2] = "V6" => (IsSome(ipv6) /\ ipv6_mode # "Disabled")
              /\ fetch[targets[tf[1]].domain] = "ok"
        /\ task[tf] = "none" => CallsBy(ByTask(tf[1], tf[2])) = {}
        /\ Cardinality(CallsBy(ByTask(tf[1], tf[2]))) <= 1
        /\ \A c \in CallsBy(ByTask(tf[1], tf[2])) : c.n = 0

C28_Witness ==
    /\ pc = "exit"
    /\ ~dry_run
    /\ ipv6_mode = "Try"
    /\ IsSome(ipv4)
    /\ ~IsSome(ipv6)
    /\ Len(targets) = 2
    /\ fetch[targets[1].domain] = "err"
    /\ fetch[targets[2].domain] = "ok"
    /\ task[<<1, "V4">>] = "none"
    /\ task[<<2, "V4">>] = "ok"
    /\ task[<<2, "V6">>] = "none"
    /\ CallsBy(ByTask(2, "V4")) # {}

\* C29: once get_addresses has returned successfully, both addresses are
\* absent exactly if both families are Disabled: with a family in Enabled
\* or Try mode a successful result holds at least one address.
C29_NoneOnlyIfDisabled ==
    addrs = "ok" =>
        ((~IsSome(ipv4) /\ ~IsSome(ipv6))
            <=> (ipv4_mode = "Disabled" /\ ipv6_mode = "Disabled"))

C29_Witness ==
    /\ addrs = "ok"
    /\ ipv4_mode = "Try"
    /\ ipv6_mode = "Try"
    /\ probed = <<Some(Cur6), None>>
    /\ ~IsSome(ipv4)
    /\ ipv6 = Some(Cur6)

\* C30: the log holds at most one call of the primary probe and at most
\* one of the IPv4-only probe; the IPv4-only probe is in the log only if
\* the primary probe was called and answered with an IPv6 address and
\* IPv4 is wanted.
C30_ProbesOnce ==
    /\ Cardinality(CallsOf("ping")) <= 1
    /\ Cardinality(CallsOf("ping_v4")) <= 1
    /\ \A c \in CallsOf("ping") \cup CallsOf("ping_v4") : c.n = 0
    /\ Len(probed) <= 2
    /\ CallsOf("ping_v4") # {} =>
          /\ CallsOf("ping") # {}
          /\ Len(probed) >= 1
          /\ IsSome(probed[1])
          /\ probed[1].v.fam = "V6"
          /\ ipv4_mode # "Disabled"

C30_Witness ==
    /\ pc = "exit"
    /\ ipv4_mode = "Enabled"
    /\ ipv6_mode = "Disabled"
    /\ probed = <<Some(Cur6), Some(Cur4)>>
    /\ Cardinality(CallsOf("ping")) = 1
    /\ Cardinality(CallsOf("ping_v4")) = 1
    /\ ipv4 = Some(Cur4)
    /\ ~IsSome(ipv6)

\* C31: a dispatched task that finds exactly one record carrying its
\* target's name and its family's type, the content of which is no IP
\* address or is an address of the other family, has failed, is counted
\* once among the failures, and has issued no call: the record is not
\* taken for one to update.
C31_MalformedFails ==
    \A tf \in DOMAIN task :
        LET found == OfType(TaskTarget(tf), TaskRecords(tf), FamilyType(tf[2]))
        IN  ( /\ task[tf] # "none"
              /\ Cardinality(found) = 1
              /\ \A k \in found :
                    LET parsed == ParseIp(TaskRecords(tf)[k].content)
                    IN  ~IsSome(parsed) \/ parsed.v.fam # tf[2] )
            => /\ task[tf] = "err"
               /\ CallsBy(ByTask(tf[1], tf[2])) = {}
               /\ pc = "exit" => err_count = FetchFailures + TaskFailures

C31_Witness ==
    /\ ~dry_run
    /\ pc = "exit"
    /\ err_count = 1
    /\ calls \cap (CallsOf("createRecord") \cup CallsOf("editRecord")) = {}
    /\ \E tf \in DOMAIN task :
          /\ task[tf] = "err"
          /\ tf[2] = "V4"
          /\ OfType(TaskTarget(tf), TaskRecords(tf), "A") = {1}
          /\ TaskRecords(tf)[1].content = "2001:db8::7"
          /\ Len(TaskRecords(tf)) = 1

C37_OrderInvariant ==
    (IsSome(ret) /\ ret.v.how = "reorder") => ret.v.other = ret.v.base

C37_Witness ==
    /\ IsSome(ret)
    /\ ret.v.how = "reorder"
    /\ arg.v.addr = Cur4
    /\ ~IsSome(arg.v.target.subdomain)
    /\ Len(arg.v.records) = 3
    /\ arg.v.records[1].typ = "A"
    /\ arg.v.records[2].typ = "A"
    /\ arg.v.records[3].typ = "CNAME"
    /\ ret.v.list[1].typ = "CNAME"
    /\ ret.v.base.kind = "Failed"
    /\ ret.v.other.kind = "Failed"

\* C33: no step changes the records of a domain except the step in which
\* the answer to that domain's own listRecords call arrives, and that
\* step comes once: a record task that has ended stays ended.  The map
\* keeps its domains once it is made.  No task exists before every record
\* task has ended, and from the reconcile phase on no step changes the
\* map, the answer to a successful createRecord or editRecord included.
C33_RecordMapFrame ==
    [][ /\ \A d \in DOMAIN current_records \cap DOMAIN current_records' :
              current_records'[d] # current_records[d] =>
                  /\ pc = "fetch"
                  /\ fetch[d] = "called"
                  /\ fetch'[d] = "ok"
        /\ \A d \in DOMAIN fetch :
              fetch[d] \in {"ok", "err"} => (d \in DOMAIN fetch' /\ fetch'[d] = fetch[d])
        /\ DOMAIN current_records # {} => DOMAIN current_records' = DOMAIN current_records
        /\ pc \in {"targets", "exit"} => current_records' = current_records
        /\ (\E tf \in DOMAIN task' : task'[tf] # "none") =>
              \A d \in DOMAIN fetch' : fetch'[d] \in {"ok", "err"}
      ]_vars

C33_Witness ==
    /\ pc = "exit"
    /\ ~dry_run
    /\ Cardinality(DOMAIN fetch) = 2
    /\ \E tf \in DOMAIN task :
          /\ task[tf] = "ok"
          /\ \E c \in CallsBy(ByTask(tf[1], tf[2])) : c.req.op = "createRecord"
          /\ Len(TaskRecords(tf)) = 1
          /\ OfType(TaskTarget(tf), TaskRecords(tf), FamilyType(tf[2])) = {}

\* C34: the address of a family in Disabled mode is absent at every
\* moment of the run, whatever the probes answered; no task exists for
\* that family, and no createRecord or editRecord call of its record type
\* (A for IPv4, AAAA for IPv6) is in the log.
C34_DisabledSkipped ==
    /\ ipv4_mode = "Disabled" =>
          /\ ~IsSome(ipv4)
          /\ \A tf \in DOMAIN task : tf[2] = "V4" => task[tf] = "none"
          /\ \A c \in calls : c.req.op \in Mutations => c.req.typ # "A"
    /\ ipv6_mode = "Disabled" =>
          /\ ~IsSome(ipv6)
          /\ \A tf \in DOMAIN task : tf[2] = "V6" => task[tf] = "none"
          /\ \A c \in calls : c.req.op \in Mutations => c.req.typ # "AAAA"

C34_Witness ==
    /\ pc = "exit"
    /\ ipv6_mode = "Disabled"
    /\ probed = <<Some(Cur6), Some(Cur4)>>
    /\ ~IsSome(ipv6)
    /\ ipv4 = Some(Cur4)
    /\ \E c \in calls : c.req.op \in Mutations /\ c.req.typ = "A"
    /\ \E tf \in DOMAIN task :
          /\ tf[2] = "V6"
          /\ task[tf] = "none"
          /\ OfType(TaskTarget(tf), TaskRecords(tf), "AAAA") # {}

\* C35: a dry run and a real run are told apart by their createRecord and
\* editRecord calls alone.  In either, the probes and listRecords calls
\* in the log are those the progress of the run, the probe answers and
\* the targets call for; every dispatched task has the result the
\* decision on its target, records and address gives (a failure, or
\* success with no call for an unchanged record), an edit or create
\* decision ending in success without a call in a dry run and in exactly
\* the decided call in a real run; and a run none of whose create or edit
\* calls failed returns the failed fetches plus the tasks whose decision
\* was a failure.
C35_DryRunSameDecisions ==
    /\ {c \in calls : c.req.op \notin Mutations} = {[req |-> r, n |-> 0] : r \in ReadsSoFar}
    /\ \A tf \in DOMAIN task : task[tf] # "none" =>
          LET by == CallsBy(ByTask(tf[1], tf[2]))
              kind == Decision(tf).kind
          IN  /\ kind = "Failed" => (task[tf] = "err" /\ by = {})
              /\ kind = "NoChange" => (task[tf] = "ok" /\ by = {})
              /\ (kind \in {"Edit", "Create"} /\ dry_run) => (task[tf] = "ok" /\ by = {})
              /\ (kind \in {"Edit", "Create"} /\ ~dry_run) =>
                    /\ Cardinality(by) = 1
                    /\ \A c \in by :
                          c.req.op = (IF kind = "Edit" THEN "editRecord" ELSE "createRecord")
    /\ ( /\ pc = "exit"
         /\ DOMAIN fetch # {}
         /\ \A tf \in DOMAIN task :
               CallsBy(ByTask(tf[1], tf[2])) # {} => task[tf] = "ok" )
       => err_count = FetchFailures
                    + Cardinality({tf \in DOMAIN task :
                                     task[tf] # "none" /\ Decision(tf).kind = "Failed"})

C35_Witness ==
    /\ dry_run
    /\ pc = "exit"
    /\ err_count = 1
    /\ Len(probed) = 2
    /\ CallsOf("createRecord") \cup CallsOf("editRecord") = {}
    /\ \E tf \in DOMAIN task : task[tf] = "err" /\ Decision(tf).kind = "Failed"
    /\ \E tf \in DOMAIN task : task[tf] = "ok" /\ Decision(tf).kind = "Create"
    /\ \E tf \in DOMAIN task : task[tf] = "ok" /\ Decision(tf).kind = "Edit"

\* C36: when App::run has returned, in whatever order the answers came
\* in, every record task and every task has ended, the createRecord and
\* editRecord calls in the log are exactly those the answers to the
\* listRecords calls and the addresses call for, each once, and the value
\* returned is the number of failed answers: nothing in the outcome tells
\* the order of the answers.
C36_ScheduleIndependent ==
    (pc = "exit" /\ DOMAIN fetch # {}) =>
        LET on == {tf \in DOMAIN task :
                     /\ fetch[TaskTarget(tf).domain] = "ok"
                     /\ Len(TaskRecords(tf)) > 0
                     /\ IsSome(TaskAddr(tf))}
        IN  /\ \A d \in DOMAIN fetch : fetch[d] \in {"ok", "err"}
            /\ \A tf \in DOMAIN task : task[tf] \in {"none", "ok", "err"}
            /\ \A tf \in DOMAIN task : task[tf] # "none" <=> tf \in on
            /\ {c \in calls : c.req.op \in Mutations}
                  = {[req |-> r, n |-> 0] :
                       r \in UNION {Sent(dry_run, tf[1], tf[2], TaskTarget(tf), Decision(tf),
                                         TaskAddr(tf).v) : tf \in on}}
            /\ err_count = FetchFailures + TaskFailures

C36_Witness ==
    /\ pc = "exit"
    /\ ~dry_run
    /\ \E d, e \in DOMAIN fetch : fetch[d] = "ok" /\ fetch[e] = "err"
    /\ \E tf, tg \in DOMAIN task :
          /\ task[tf] = "ok"
          /\ task[tg] = "err"
          /\ CallsBy(ByTask(tf[1], tf[2])) # {}
          /\ CallsBy(ByTask(tg[1], tg[2])) # {}
    /\ err_count = 2

\* C38: every createRecord and editRecord request carries as its name
\* the empty string for a target with subdomain "@" or with no subdomain
\* and the subdomain itself for any other target, as its type "A" for an
\* IPv4 address and "AAAA" for an IPv6 address, and as its content that
\* address; the requests of a target with "@" and of a target with no
\* subdomain on the same domain and for the same family are the same
\* request.
C38_Payload ==
    /\ \A c \in calls : c.req.op \in Mutations =>
          LET target == targets[c.req.by.i]
              root == ~IsSome(target.subdomain) \/ target.subdomain.v = <<"@">>
          IN  /\ c.req.name = (IF root THEN <<>> ELSE target.subdomain.v)
              /\ c.req.typ = (IF c.req.by.fam = "V4" THEN "A" ELSE "AAAA")
              /\ c.req.content = (IF c.req.by.fam = "V4" THEN ipv4 ELSE ipv6).v.val
              /\ c.req.domain = target.domain
    /\ \A c1, c2 \in calls :
          ( /\ c1.req.op \in Mutations
            /\ c2.req.op \in Mutations
            /\ c1.req.by.fam = c2.req.by.fam
            /\ targets[c1.req.by.i].domain = targets[c2.req.by.i].domain
            /\ targets[c1.req.by.i].ttl = targets[c2.req.by.i].ttl
            /\ ~IsSome(targets[c1.req.by.i].subdomain)
            /\ targets[c2.req.by.i].subdomain = Some(<<"@">>) )
          => [c1.req EXCEPT !.by = c2.req.by] = c2.req

C38_Witness ==
    /\ Len(targets) = 2
    /\ ~IsSome(targets[1].subdomain)
    /\ targets[2].subdomain = Some(<<"@">>)
    /\ \E c1 \in CallsBy(ByTask(1, "V6")), c2 \in CallsBy(ByTask(2, "V6")) :
          /\ c1.req.op = "editRecord"
          /\ c2.req.op = "editRecord"
          /\ c1.req.name = <<>>
          /\ c2.req.name = <<>>
          /\ c1.req.typ = "AAAA"
    /\ \E c \in CallsBy(ByTask(1, "V4")) : c.req.typ = "A"

====
